---------------------------- MODULE Spec2Model ----------------------------
(***************************************************************************)
(* Family Care Rota: the slot claim protocol (RotaCell.handleToggle), the  *)
(* snapshot reconciliation (App's onSnapshot callback), the initialisation *)
(* and authentication effect, and the pure helpers (stringToHslColor,      *)
(* trim) of the single-page App component.  The remote store is the        *)
(* Firestore collection ROTA_COLLECTION_PATH shared by every client.       *)
(***************************************************************************)
EXTENDS Integers, Sequences, FiniteSets, TLC

(***************************************************************************)
(* Bounds of the model.                                                    *)
(***************************************************************************)
\* total number of setDoc calls issued by all clients together
MaxWrites == 2
\* number of snapshots the store keeps undelivered for one listener; a
\* newer snapshot replaces the newest undelivered one beyond that
MaxInbox == 1
\* number of documents written by writers other than the modelled clients
MaxForeign == 1

\* the browsers running the App
Clients == {"c1", "c2"}
\* document id `${formatDate(date)}_${task}` of the cell the clients tap
Slots == {"2024-01-01_Breakfast"}

(***************************************************************************)
(* JavaScript values.  A value is null, undefined or a proper value.       *)
(***************************************************************************)
Null == [t |-> "null"]
Undefined == [t |-> "undefined"]
Val(x) == [t |-> "val", v |-> x]

\* character codes (charCodeAt) of the names used below
SPACE == 32
Alice == <<65, 108, 105, 99, 101>>
Bob == <<66, 111, 98>>
\* the text a user types into the name input: blank, padded and plain names
NameInputs(c) ==
  IF c = "c1" THEN {<<SPACE>>, <<SPACE>> \o Alice \o <<SPACE>>, Bob} ELSE {<<>>, Bob}
\* what localStorage.getItem('rotaUserName') || '' can return at start-up
StoredNames(c) == IF c = "c1" THEN {<<>>, Alice} ELSE {<<>>, Bob}

\* user.uid given to a client by Firebase authentication
UidOf(c) == IF c = "c1" THEN "uidA" ELSE "uidB"
\* the Firestore handle returned by getFirestore(app)
Firestore == Val("firestore")

(***************************************************************************)
(* String.prototype.trim: leading and trailing white space removed.        *)
(***************************************************************************)
IsSpace(ch) == ch \in {9, 10, 11, 12, 13, SPACE}

RECURSIVE TrimLeft(_)
TrimLeft(str) ==
  IF str # <<>> /\ IsSpace(Head(str)) THEN TrimLeft(Tail(str)) ELSE str

RECURSIVE TrimRight(_)
TrimRight(str) ==
  IF str # <<>> /\ IsSpace(str[Len(str)])
  THEN TrimRight(SubSeq(str, 1, Len(str) - 1))
  ELSE str

Trim(str) == TrimRight(TrimLeft(str))

(***************************************************************************)
(* stringToHslColor.  hash is a JavaScript number (a double holding an     *)
(* integer); it is kept as  hi * 2^27 + lo  with 0 <= lo < 2^27 so that    *)
(* every intermediate value fits the integers of TLC.  (hash << 5)      *)
(* first converts hash to a signed 32-bit integer and wraps the shifted    *)
(* result to 32 bits; the subtraction and the addition are not wrapped.    *)
(***************************************************************************)
TwoTo22 == 4194304
TwoTo27 == 134217728
HueModulus == 360
Saturation == 70
Lightness == 50

\* floor division and its remainder, for a possibly negative dividend
FloorDiv(a, n) == IF a >= 0 THEN a \div n ELSE -(((-a) + n - 1) \div n)
FloorMod(a, n) == a - n * FloorDiv(a, n)

\* the number hi * 2^27 + lo, with lo brought into 0 .. 2^27 - 1
Num(hi, lo) == [hi |-> hi + FloorDiv(lo, TwoTo27), lo |-> FloorMod(lo, TwoTo27)]

\* hash << 5 as a number: only hash mod 2^27 survives the shift; the top
\* five of those 27 bits become the sign and high bits of the 32-bit result
ShiftLeft5(h) ==
  LET a == h.lo \div TwoTo22
      b == h.lo % TwoTo22
  IN  Num(IF a >= 16 THEN a - 32 ELSE a, b * 32)

\* one round of the loop: hash = str.charCodeAt(i) + ((hash << 5) - hash)
HashStep(h, ch) ==
  LET s == ShiftLeft5(h)
  IN  Num(s.hi - h.hi, ch + s.lo - h.lo)

RECURSIVE HashFrom(_, _)
HashFrom(h, str) ==
  IF str = <<>> THEN h ELSE HashFrom(HashStep(h, Head(str)), Tail(str))

StringHash(str) == HashFrom(Num(0, 0), str)

\* hash % 360 in JavaScript: the remainder takes the sign of the dividend
\* (2^27 mod 360 = 8)
JsRemainder360(h) ==
  LET m == FloorMod(h.hi * (TwoTo27 % HueModulus) + h.lo, HueModulus)
  IN  IF h.hi >= 0 \/ m = 0 THEN m ELSE m - HueModulus

\* the colour `hsl(${hue}, 70%, 50%)`
stringToHslColor(str) ==
  [hue |-> JsRemainder360(StringHash(str)), sat |-> Saturation, light |-> Lightness]

(***************************************************************************)
(* Dates.  A Date object is modelled by its local calendar fields: year,   *)
(* month (0 = January, as getMonth() returns it), date (day of the month)  *)
(* and hours.  setDate and getDay are computed as the Date object computes *)
(* them: setDate rolls a day number outside the month into the months      *)
(* before or after, getDay is the weekday of the day count since           *)
(* 1970-01-01, a Thursday.                                                 *)
(***************************************************************************)
weeksToDisplay == 8

DaysInWeek == 7

IsLeapYear(y) == (y % 4 = 0 /\ y % 100 # 0) \/ y % 400 = 0

DaysInMonth(y, m) ==
  IF m = 1 THEN (IF IsLeapYear(y) THEN 29 ELSE 28)
  ELSE IF m \in {3, 5, 8, 10} THEN 30
  ELSE 31

RECURSIVE RollDate(_, _, _)
\* the calendar day that is day number n of month m of year y, n any integer
RollDate(y, m, n) ==
  IF n < 1
    THEN LET py == IF m = 0 THEN y - 1 ELSE y
             pm == IF m = 0 THEN 11 ELSE m - 1
         IN  RollDate(py, pm, n + DaysInMonth(py, pm))
  ELSE IF n > DaysInMonth(y, m)
    THEN RollDate(IF m = 11 THEN y + 1 ELSE y, IF m = 11 THEN 0 ELSE m + 1,
                  n - DaysInMonth(y, m))
  ELSE [year |-> y, month |-> m, date |-> n]

\* date.setDate(n): the wall-clock time of the day is kept
setDate(dt, n) ==
  LET r == RollDate(dt.year, dt.month, n)
  IN  [year |-> r.year, month |-> r.month, date |-> r.date, hours |-> dt.hours]

\* date.setHours(0, 0, 0, 0)
setHoursMidnight(dt) == [dt EXCEPT !.hours = 0]

LeapYearsBefore(y) == ((y - 1) \div 4) - ((y - 1) \div 100) + ((y - 1) \div 400)

RECURSIVE DaysBeforeMonth(_, _)
DaysBeforeMonth(y, m) ==
  IF m = 0 THEN 0 ELSE DaysBeforeMonth(y, m - 1) + DaysInMonth(y, m - 1)

\* the number of whole days from 1970-01-01 to the local calendar day of dt
DayNumber(dt) ==
  365 * (dt.year - 1970) + (LeapYearsBefore(dt.year) - LeapYearsBefore(1970))
    + DaysBeforeMonth(dt.year, dt.month) + (dt.date - 1)

\* date.getDay(): 0 = Sunday .. 6 = Saturday
getDay(dt) == (4 + DayNumber(dt)) % 7

\* a week that starts on the Monday after a Sunday instead of the one before
getMondayOfWeekSundayAhead(date) ==
  LET day == getDay(date)
      diff == date.date - day + 1
  IN  setHoursMidnight(setDate(date, diff))

getMondayOfWeek(date) ==
  LET day == getDay(date)
      diff == date.date - day + (IF day = 0 THEN -6 ELSE 1)
  IN  setHoursMidnight(setDate(date, diff))

Digits == <<"0", "1", "2", "3", "4", "5", "6", "7", "8", "9">>

RECURSIVE DecimalString(_)
\* String(n) for a natural number n, as a sequence of characters
DecimalString(n) ==
  IF n < 10 THEN <<Digits[n + 1]>>
  ELSE DecimalString(n \div 10) \o <<Digits[(n % 10) + 1]>>

\* str.padStart(2, '0')
PadStart2(str) == IF Len(str) < 2 THEN <<"0">> \o str ELSE str

\* formatDate(date): yyyy-mm-dd
formatDate(date) ==
  DecimalString(date.year) \o <<"-">> \o PadStart2(DecimalString(date.month + 1))
    \o <<"-">> \o PadStart2(DecimalString(date.date))

\* the body of the rotaWeeks memo for a given value of new Date(); the
\* label of a week, text for display in the locale of the browser, is left out
WeeksFrom(t) ==
  LET startOfCurrentWeek == getMondayOfWeek(t)
      weekStartOf(w) == setDate(startOfCurrentWeek, startOfCurrentWeek.date + (w * 7))
  IN  [i \in 1..weeksToDisplay |->
         LET weekStart == weekStartOf(i - 1)
         IN  [id |-> formatDate(weekStart),
              dates |-> [k \in 1..DaysInWeek |-> setDate(weekStart, weekStart.date + (k - 1))]]]

VARIABLES
  firebaseConfigDefined,  \* per client: the host page defines __firebase_config
  phase,           \* per client: progress of the initialisation effect
  signIn,          \* per client: outcome of authenticate()
  db,              \* per client: App state db
  userId,          \* per client: App state userId
  userName,        \* per client: App state userName (character codes)
  loading,         \* per client: App state loading
  rotaData,        \* per client: App state rotaData, the local slot mapping
  sub,             \* per client: state of the onSnapshot listener
  listeners,       \* per client: listeners opened and neither removed nor ended
  inbox,           \* per client: snapshots sent by the store, not yet delivered
  pending,         \* per client: setDoc calls issued and not yet acknowledged
  store,           \* the documents of the shared collection
  now,             \* the latest value Date.now() returned
  nIssued,         \* number of setDoc calls issued so far
  nForeign,        \* number of documents written by other writers so far
  lastToggle,      \* the handleToggle call that has just run, if the last step was one
  lastCommit,      \* the write the store has just committed, if it raced with others
  today            \* the value of new Date() at the first render, null before it

vars == <<firebaseConfigDefined, phase, signIn, db, userId, userName, loading, rotaData,
          sub, listeners, inbox, pending, store, now, nIssued, nForeign, lastToggle, lastCommit,
          today>>

\* const rotaWeeks = useMemo(() => { ... }, []): computed at the first render
rotaWeeks == IF today = Null THEN <<>> ELSE WeeksFrom(today)

\* a host that never reports itself external
isExternalHostNever(c) == FALSE

\* const isExternalHost = typeof __firebase_config === 'undefined'
isExternalHost(c) == ~firebaseConfigDefined[c]

(***************************************************************************)
(* Documents of the collection and the merge write setDoc(.., {merge:true})*)
(***************************************************************************)
Fields == {"claimedBy", "name", "color", "timestamp"}

\* JavaScript truthiness of a string-valued field, state or handle
Truthy(x) == x.t = "val" /\ x.v # ""

\* the object written when a claimed cell is released
UnclaimFields == [claimedBy |-> Null, name |-> Null, color |-> Null]

\* the object written when a free cell is claimed
ClaimFields(uid, uname, ucolor, t) ==
  [claimedBy |-> uid, name |-> Val(uname), color |-> Val(ucolor), timestamp |-> Val(t)]

\* setDoc(docRef, fields, { merge: true }) applied by the store: the fields
\* given replace the document's, the others stay; a missing document is created
SetDocMerge(st, s, fields) ==
  LET base == IF s \in DOMAIN st THEN st[s] ELSE [f \in Fields |-> Undefined]
      merged == [f \in Fields |-> IF f \in DOMAIN fields THEN fields[f] ELSE base[f]]
  IN  [x \in (DOMAIN st) \cup {s} |-> IF x = s THEN merged ELSE st[x]]

\* a full queue that drops the newest snapshot instead of an intermediate one
EnqueueDropNewest(q, st) == IF Len(q) < MaxInbox THEN Append(q, st) ELSE q

\* a snapshot joins the undelivered ones of a listener; the store may leave
\* out intermediate snapshots, never the newest
Enqueue(q, st) ==
  IF Len(q) < MaxInbox THEN Append(q, st) ELSE SubSeq(q, 1, Len(q) - 1) \o <<st>>

\* the store sends the whole collection to every open listener
Broadcast(st) ==
  [k \in Clients |-> IF sub[k] = "active" THEN Enqueue(inbox[k], st) ELSE inbox[k]]

(***************************************************************************)
(* Reconciliation: the onSnapshot callback builds newRotaData.             *)
(***************************************************************************)
Reconcile(snapshot) ==
  [s \in {x \in DOMAIN snapshot : Truthy(snapshot[x].claimedBy)} |-> snapshot[s]]

(***************************************************************************)
(* The claim protocol: what handleToggle decides and writes.               *)
(***************************************************************************)
\* a cell that reads the owner of a slot from the name stored with the claim
SlotClaimedByName(data, s) == IF s \in DOMAIN data THEN data[s].name ELSE Undefined

\* const slot = data[docId] || {};  slot.claimedBy
SlotClaimedBy(data, s) == IF s \in DOMAIN data THEN data[s].claimedBy ELSE Undefined

\* useMemo with an empty dependency list: the colour of the first render's ''
userColorNeverRecomputed(c) == stringToHslColor(<<>>)

\* const userColor = useMemo(() => stringToHslColor(userName), [userName])
userColor(c) == stringToHslColor(userName[c])

\* no handleToggle call has just run
NoToggle == [client |-> "none", slot |-> "none", outcome |-> "none"]

\* no write that raced with others has just been committed
NoCommit == [client |-> "none", slot |-> "none", racing |-> {}]

\* handleToggle with the test `else if (!isClaimed)` weakened to `else`
ToggleDecisionOverwrite(ext, uid, uname, dbh, claimedBy) ==
  IF ext THEN "offline"
  ELSE IF ~Truthy(uid) \/ uname = <<>> \/ ~Truthy(dbh) THEN "notReady"
  ELSE IF claimedBy = uid THEN "unclaim"
  ELSE "claim"

\* handleToggle with the test !userName left out of the guard
ToggleDecisionNoNameCheck(ext, uid, uname, dbh, claimedBy) ==
  IF ext THEN "offline"
  ELSE IF ~Truthy(uid) \/ ~Truthy(dbh) THEN "notReady"
  ELSE IF claimedBy = uid THEN "unclaim"
  ELSE IF ~Truthy(claimedBy) THEN "claim"
  ELSE "ignored"

\* handleToggle with the test !db left out of the guard
ToggleDecisionNoDbCheck(ext, uid, uname, dbh, claimedBy) ==
  IF ext THEN "offline"
  ELSE IF ~Truthy(uid) \/ uname = <<>> THEN "notReady"
  ELSE IF claimedBy = uid THEN "unclaim"
  ELSE IF ~Truthy(claimedBy) THEN "claim"
  ELSE "ignored"

ToggleDecision(ext, uid, uname, dbh, claimedBy) ==
  IF ext THEN "offline"
  ELSE IF ~Truthy(uid) \/ uname = <<>> \/ ~Truthy(dbh) THEN "notReady"
  ELSE IF claimedBy = uid THEN "unclaim"
  ELSE IF ~Truthy(claimedBy) THEN "claim"
  ELSE "ignored"

\* a handler that drops a tap while a write of this client to the slot is in flight
ToggleWriteDeduplicated(c, s, decision, t) ==
  IF \E i \in 1..Len(pending[c]) : pending[c][i].slot = s THEN <<>>
  ELSE IF decision = "unclaim" THEN <<[slot |-> s, fields |-> UnclaimFields]>>
  ELSE IF decision = "claim"
    THEN <<[slot |-> s, fields |-> ClaimFields(userId[c], userName[c], userColor(c), t)]>>
  ELSE <<>>

\* the setDoc calls of one handleToggle run; t is what Date.now() returns
ToggleWrite(c, s, decision, t) ==
  IF decision = "unclaim" THEN <<[slot |-> s, fields |-> UnclaimFields]>>
  ELSE IF decision = "claim"
    THEN <<[slot |-> s, fields |-> ClaimFields(userId[c], userName[c], userColor(c), t)]>>
  ELSE <<>>

\* a handler that shows its own write at once, before any snapshot
ToggleLocalOptimistic(data, s, writes) ==
  IF writes = <<>> THEN data ELSE Reconcile(SetDocMerge(data, s, writes[1].fields))

\* handleToggle never calls setRotaData: the mapping is as it was
ToggleLocal(data, s, writes) == data

\* Date.now() is later at every call: the clock is read once per claim
Toggle(c, s) ==
  LET t == now + 1
      decision == ToggleDecision(isExternalHost(c), userId[c], userName[c], db[c],
                                 SlotClaimedBy(rotaData[c], s))
      writes == ToggleWrite(c, s, decision, t)
  IN  /\ phase[c] # "unmounted"
      /\ ~loading[c]
      /\ writes # <<>> => nIssued < MaxWrites
      /\ now' = IF decision = "claim" THEN t ELSE now
      /\ pending' = [pending EXCEPT ![c] = @ \o writes]
      /\ nIssued' = nIssued + Len(writes)
      /\ lastToggle' = [client |-> c, slot |-> s, outcome |-> decision]
      /\ lastCommit' = NoCommit
      /\ rotaData' = [rotaData EXCEPT ![c] = ToggleLocal(@, s, writes)]
      /\ UNCHANGED <<today, firebaseConfigDefined, phase, signIn, db, userId, userName, loading,
                     sub, listeners, inbox, store, nForeign>>

(***************************************************************************)
(* The store acknowledges or rejects the oldest write of a client.         *)
(***************************************************************************)
\* the other clients with a setDoc call for slot s issued and not yet
\* acknowledged: their writes race with a write of c to s
Racing(c, s) ==
  {k \in Clients \ {c} : \E i \in 1..Len(pending[k]) : pending[k][i].slot = s}

Commit(c) ==
  /\ pending[c] # <<>>
  /\ LET w == Head(pending[c])
         st == SetDocMerge(store, w.slot, w.fields)
     IN  /\ store' = st
         /\ inbox' = IF st = store THEN inbox ELSE Broadcast(st)
  /\ pending' = [pending EXCEPT ![c] = Tail(@)]
  /\ lastToggle' = NoToggle
  /\ lastCommit' = IF Racing(c, Head(pending[c]).slot) = {} THEN NoCommit
                    ELSE [client |-> c, slot |-> Head(pending[c]).slot,
                          racing |-> Racing(c, Head(pending[c]).slot)]
  /\ UNCHANGED <<today, firebaseConfigDefined, phase, signIn, db, userId, userName, loading,
                 rotaData, sub, listeners, now, nIssued, nForeign>>

\* a catch block that issues the rejected write again
WriteFailRetry(c) ==
  /\ pending[c] # <<>>
  /\ pending' = [pending EXCEPT ![c] = Append(Tail(@), Head(@))]
  /\ lastToggle' = NoToggle
  /\ lastCommit' = NoCommit
  /\ UNCHANGED <<today, firebaseConfigDefined, phase, signIn, db, userId, userName, loading,
                 rotaData, sub, listeners, inbox, store, now, nIssued, nForeign>>

\* setDoc rejects: catch (error) { console.error(...) }
WriteFail(c) ==
  /\ pending[c] # <<>>
  /\ pending' = [pending EXCEPT ![c] = Tail(@)]
  /\ lastToggle' = NoToggle
  /\ lastCommit' = NoCommit
  /\ UNCHANGED <<today, firebaseConfigDefined, phase, signIn, db, userId, userName, loading,
                 rotaData, sub, listeners, inbox, store, now, nIssued, nForeign>>

(***************************************************************************)
(* The snapshot listener.                                                  *)
(***************************************************************************)
\* an effect that returns no cleanup: the listener it opened stays
SnapshotCleanupMissing(c) ==
  [sub |-> sub[c], inbox |-> inbox[c], listeners |-> listeners[c]]

\* return () => unsubscribeSnapshot(), run before the effect runs again and
\* at unmount: the listener of the last run, if it opened one, is removed
\* and what the store had sent to it is dropped
SnapshotCleanup(c) ==
  IF sub[c] = "none"
    THEN [sub |-> "none", inbox |-> inbox[c], listeners |-> listeners[c]]
  ELSE [sub |-> "none", inbox |-> <<>>,
        listeners |-> IF sub[c] = "active" THEN listeners[c] - 1 ELSE listeners[c]]

\* the effect with dependencies [db, userId], run after a render that
\* changed one of them: the old listener is removed, a new one is opened
SnapshotEffect(c, newDb, newUid, curLoading) ==
  IF newDb = db[c] /\ newUid = userId[c]
    THEN [sub |-> sub[c], inbox |-> inbox[c], listeners |-> listeners[c],
          loading |-> curLoading]
  ELSE LET cleaned == SnapshotCleanup(c)
       IN  IF isExternalHost(c) \/ ~Truthy(newDb) \/ ~Truthy(newUid)
             THEN [sub |-> cleaned.sub, inbox |-> cleaned.inbox,
                   listeners |-> cleaned.listeners, loading |-> curLoading]
           ELSE [sub |-> "active", inbox |-> cleaned.inbox \o <<store>>,
                 listeners |-> cleaned.listeners + 1, loading |-> FALSE]

\* a callback that merges the snapshot into the mapping it already holds
OnSnapshotMerge(old, snapshot) ==
  [s \in (DOMAIN old) \cup (DOMAIN Reconcile(snapshot)) |->
     IF s \in DOMAIN Reconcile(snapshot) THEN snapshot[s] ELSE old[s]]

\* the callback (snapshot) => { ... setRotaData(newRotaData) }
OnSnapshot(old, snapshot) == Reconcile(snapshot)

Deliver(c) ==
  /\ sub[c] = "active"
  /\ inbox[c] # <<>>
  /\ rotaData' = [rotaData EXCEPT ![c] = OnSnapshot(@, Head(inbox[c]))]
  /\ inbox' = [inbox EXCEPT ![c] = Tail(@)]
  /\ lastToggle' = NoToggle
  /\ lastCommit' = NoCommit
  /\ UNCHANGED <<today, firebaseConfigDefined, phase, signIn, db, userId, userName, loading,
                 sub, listeners, pending, store, now, nIssued, nForeign>>

\* an error callback that clears the mapping
OnSnapshotErrorReset(data) == <<>>

\* the callback (error) => { console.error(...) }
OnSnapshotError(data) == data

SubError(c) ==
  /\ sub[c] = "active"
  /\ sub' = [sub EXCEPT ![c] = "error"]
  /\ listeners' = [listeners EXCEPT ![c] = @ - 1]
  /\ inbox' = [inbox EXCEPT ![c] = <<>>]
  /\ rotaData' = [rotaData EXCEPT ![c] = OnSnapshotError(@)]
  /\ lastToggle' = NoToggle
  /\ lastCommit' = NoCommit
  /\ UNCHANGED <<today, firebaseConfigDefined, phase, signIn, db, userId, userName, loading,
                 pending, store, now, nIssued, nForeign>>

(***************************************************************************)
(* Effect 1: Firebase initialisation and authentication.                   *)
(***************************************************************************)
\* the effect run once after the first render; initOk tells whether
\* initializeApp / getFirestore / getAuth returned without throwing
InitEffect(c, initOk) ==
  /\ phase[c] = "mount"
  /\ IF isExternalHost(c)
       THEN /\ phase' = [phase EXCEPT ![c] = "offline"]
            /\ loading' = [loading EXCEPT ![c] = FALSE]
            /\ userId' = [userId EXCEPT ![c] = Val("UI_USER")]
            /\ signIn' = signIn
     ELSE IF initOk
       THEN /\ phase' = [phase EXCEPT ![c] = "listening"]
            /\ signIn' = [signIn EXCEPT ![c] = "pending"]
            /\ UNCHANGED <<loading, userId>>
     ELSE   /\ phase' = [phase EXCEPT ![c] = "initFailed"]
            /\ loading' = [loading EXCEPT ![c] = FALSE]
            /\ userId' = [userId EXCEPT ![c] = Val("INITIALIZATION_FAILED")]
            /\ signIn' = signIn
  \* effect 2 runs again for the new userId and returns early: db is null
  /\ sub' = [sub EXCEPT ![c] = SnapshotEffect(c, db[c], userId'[c], loading'[c]).sub]
  /\ listeners' = [listeners EXCEPT ![c] =
                     SnapshotEffect(c, db[c], userId'[c], loading'[c]).listeners]
  /\ inbox' = [inbox EXCEPT ![c] = SnapshotEffect(c, db[c], userId'[c], loading'[c]).inbox]
  /\ lastToggle' = NoToggle
  /\ lastCommit' = NoCommit
  /\ UNCHANGED <<today, firebaseConfigDefined, db, userName, rotaData, pending, store, now,
                 nIssued, nForeign>>

\* signInWithCustomToken / signInAnonymously rejects: the catch in authenticate
AuthError(c) ==
  /\ phase[c] = "listening"
  /\ signIn[c] = "pending"
  /\ signIn' = [signIn EXCEPT ![c] = "failed"]
  /\ loading' = [loading EXCEPT ![c] = FALSE]
  /\ lastToggle' = NoToggle
  /\ lastCommit' = NoCommit
  /\ UNCHANGED <<today, firebaseConfigDefined, phase, db, userId, userName, rotaData, sub, listeners, inbox,
                 pending, store, now, nIssued, nForeign>>

\* the onAuthStateChanged callback, then effect 2 for the new [db, userId]
AuthStateChanged(c, user) ==
  /\ phase[c] = "listening"
  /\ Truthy(user) => signIn[c] \in {"pending", "ok"}
  /\ LET newUid == IF Truthy(user) THEN user ELSE Null
         newDb == IF Truthy(user) THEN Firestore ELSE db[c]
         afterCallback == IF Truthy(user) THEN loading[c] ELSE FALSE
         eff == SnapshotEffect(c, newDb, newUid, afterCallback)
     IN  /\ userId' = [userId EXCEPT ![c] = newUid]
         /\ db' = [db EXCEPT ![c] = newDb]
         /\ loading' = [loading EXCEPT ![c] = eff.loading]
         /\ sub' = [sub EXCEPT ![c] = eff.sub]
         /\ listeners' = [listeners EXCEPT ![c] = eff.listeners]
         /\ inbox' = [inbox EXCEPT ![c] = eff.inbox]
  /\ signIn' = [signIn EXCEPT ![c] = IF Truthy(user) THEN "ok" ELSE @]
  /\ lastToggle' = NoToggle
  /\ lastCommit' = NoCommit
  /\ UNCHANGED <<today, firebaseConfigDefined, phase, userName, rotaData, pending, store, now,
                 nIssued, nForeign>>

\* the App is unmounted (the page is closed): the cleanups of both effects
\* run, unsubscribeAuth() and unsubscribeSnapshot(); no handler runs after
Unmount(c) ==
  /\ phase[c] # "unmounted"
  /\ phase' = [phase EXCEPT ![c] = "unmounted"]
  /\ sub' = [sub EXCEPT ![c] = SnapshotCleanup(c).sub]
  /\ inbox' = [inbox EXCEPT ![c] = SnapshotCleanup(c).inbox]
  /\ listeners' = [listeners EXCEPT ![c] = SnapshotCleanup(c).listeners]
  /\ lastToggle' = NoToggle
  /\ lastCommit' = NoCommit
  /\ UNCHANGED <<today, firebaseConfigDefined, signIn, db, userId, userName, loading, rotaData,
                 pending, store, now, nIssued, nForeign>>

(***************************************************************************)
(* UserNameInput.handleSave: the name typed is trimmed and kept if not     *)
(* empty.                                                                  *)
(***************************************************************************)
SavedName(old, inputName) == IF Trim(inputName) # <<>> THEN Trim(inputName) ELSE old

SaveName(c, inputName) ==
  /\ phase[c] # "unmounted"
  /\ ~loading[c]
  /\ userName' = [userName EXCEPT ![c] = SavedName(@, inputName)]
  /\ lastToggle' = NoToggle
  /\ lastCommit' = NoCommit
  /\ UNCHANGED <<today, firebaseConfigDefined, phase, signIn, db, userId, loading, rotaData, sub, listeners,
                 inbox, pending, store, now, nIssued, nForeign>>

(***************************************************************************)
(* The environment: writers that are not this App.                         *)
(***************************************************************************)
\* documents another program (or the Firebase console) can put in the
\* collection: a claimant without the companion fields
ForeignDocs ==
  { [claimedBy |-> Val("uidX"), name |-> n, color |-> Undefined, timestamp |-> Undefined] :
      n \in {Undefined, Val(Bob)} }

ForeignWrite(s, doc) ==
  /\ nForeign < MaxForeign
  /\ nForeign' = nForeign + 1
  /\ store' = [x \in (DOMAIN store) \cup {s} |-> IF x = s THEN doc ELSE store[x]]
  /\ inbox' = IF store' = store THEN inbox ELSE Broadcast(store')
  /\ lastToggle' = NoToggle
  /\ lastCommit' = NoCommit
  /\ UNCHANGED <<today, firebaseConfigDefined, phase, signIn, db, userId, userName, loading,
                 rotaData, sub, listeners, pending, now, nIssued>>

(***************************************************************************)
(* The specifications.                                                     *)
(***************************************************************************)
InitClients ==
  /\ firebaseConfigDefined \in [Clients -> BOOLEAN]
  /\ phase = [c \in Clients |-> "mount"]
  /\ signIn = [c \in Clients |-> "notStarted"]
  /\ db = [c \in Clients |-> Null]
  /\ userId = [c \in Clients |-> Null]
  /\ userName \in {f \in [Clients -> {<<>>, Alice, Bob}] : \A c \in Clients : f[c] \in StoredNames(c)}
  /\ loading = [c \in Clients |-> TRUE]
  /\ rotaData = [c \in Clients |-> <<>>]
  /\ sub = [c \in Clients |-> "none"]
  /\ listeners = [c \in Clients |-> 0]
  /\ inbox = [c \in Clients |-> <<>>]
  /\ pending = [c \in Clients |-> <<>>]
  /\ now = 0
  /\ nIssued = 0
  /\ nForeign = 0
  /\ lastToggle = NoToggle
  /\ lastCommit = NoCommit

\* the collection is empty when the pages are opened
InitApp ==
  /\ InitClients
  /\ store = <<>>

\* the first render has happened, on the afternoon of 2024-01-03
Init ==
  /\ InitApp
  /\ today = [year |-> 2024, month |-> 0, date |-> 3, hours |-> 15]

Next ==
  \/ \E c \in Clients, ok \in BOOLEAN : InitEffect(c, ok)
  \/ \E c \in Clients : AuthError(c)
  \/ \E c \in Clients : \E user \in {Null, Val(UidOf(c))} : AuthStateChanged(c, user)
  \/ \E c \in Clients : \E inputName \in NameInputs(c) : SaveName(c, inputName)
  \/ \E c \in Clients, s \in Slots : Toggle(c, s)
  \/ \E c \in Clients : Commit(c)
  \/ \E c \in Clients : WriteFail(c)
  \/ \E c \in Clients : Deliver(c)
  \/ \E c \in Clients : SubError(c)

Spec == Init /\ [][Next]_vars

\* the collection is public: other programs write documents too
NextExt ==
  \/ Next
  \/ \E s \in Slots, doc \in ForeignDocs : ForeignWrite(s, doc)

SpecExt == Init /\ [][NextExt]_vars

(***************************************************************************)
(* The week generator on its own: the first render may happen at any       *)
(* moment of the years FirstYear..LastYear, and computes the memo from it. *)
(***************************************************************************)
FirstYear == 2023

LastYear == 2024

HoursOfDay == {0, 15}

Dates ==
  {dt \in [year : FirstYear..LastYear, month : 0..11, date : 1..31, hours : HoursOfDay] :
     dt.date <= DaysInMonth(dt.year, dt.month)}

InitWeeks ==
  /\ InitApp
  /\ today = Null

\* the first render of the App at the moment date: new Date() returns it
\* and useMemo runs the generator once
FirstRender(date) ==
  /\ today = Null
  /\ today' = date
  /\ UNCHANGED <<firebaseConfigDefined, phase, signIn, db, userId, userName, loading,
                 rotaData, sub, listeners, inbox, pending, store, now, nIssued, nForeign,
                 lastToggle, lastCommit>>

NextWeeks == \E date \in Dates : FirstRender(date)

SpecWeeks == InitWeeks /\ [][NextWeeks]_vars

(***************************************************************************)
(* The colour derivation on its own: the first client types any name of up *)
(* to MaxNameLen letters, or one of two given names, and saves it; the     *)
(* userColor memo follows userName.                                        *)
(***************************************************************************)
MaxNameLen == 6

NameChars == {97, 110}

Hannah == <<72, 97, 110, 110, 97, 104>>

Robert == <<82, 111, 98, 101, 114, 116>>

TypedNames(c) ==
  IF c = "c1"
    THEN {Hannah, Robert} \cup UNION {[1..n -> NameChars] : n \in 1..MaxNameLen}
  ELSE NameInputs(c)

NextColor ==
  \/ \E c \in Clients, initOk \in BOOLEAN : InitEffect(c, initOk)
  \/ \E c \in Clients : \E inputName \in TypedNames(c) : SaveName(c, inputName)

SpecColor == Init /\ [][NextColor]_vars

(***************************************************************************)
(* The pages are opened again on the host that defines the configuration:  *)
(* the names saved before are read back, and the collection holds a claim  *)
(* that the second client made when its page was open before.              *)
(***************************************************************************)
StoredClaim ==
  [s \in Slots |-> ClaimFields(Val(UidOf("c2")), Bob, stringToHslColor(Bob), 0)]

InitReload ==
  /\ InitClients
  /\ \A c \in Clients : firebaseConfigDefined[c] /\ userName[c] # <<>>
  /\ store = StoredClaim
  /\ today = [year |-> 2024, month |-> 0, date |-> 3, hours |-> 15]

SpecReload == InitReload /\ [][Next]_vars

\* the page of a client can be closed at any time
NextUnmount ==
  \/ Next
  \/ \E c \in Clients : Unmount(c)

SpecUnmount == Init /\ [][NextUnmount]_vars

\* the listener's callback runs for every snapshot the store has sent
LiveSpec == Spec /\ \A c \in Clients : WF_vars(Deliver(c))

(***************************************************************************)
(* The derived state of a slot for a client (section 4.4 of the design).   *)
(***************************************************************************)
ClaimedByOther(c, s) ==
  /\ Truthy(SlotClaimedBy(rotaData[c], s))
  /\ SlotClaimedBy(rotaData[c], s) # userId[c]

ClaimedByMe(c, s) ==
  /\ Truthy(SlotClaimedBy(rotaData[c], s))
  /\ SlotClaimedBy(rotaData[c], s) = userId[c]

Unclaimed(c, s) == ~Truthy(SlotClaimedBy(rotaData[c], s))

\* the handleToggle call that has just run was made by c on s and did `outcome`
JustToggled(c, s, outcome) == lastToggle = [client |-> c, slot |-> s, outcome |-> outcome]

(***************************************************************************)
(* C1: a toggle made while the client's local view shows the slot claimed  *)
(* by somebody else issues no write (no setDoc call joins any client's     *)
(* pending writes) and leaves every document of the store as it was.       *)
(***************************************************************************)
C1_ToggleOnOthersClaimWritesNothing ==
  [][\A c \in Clients, s \in Slots :
       (Toggle(c, s) /\ ClaimedByOther(c, s))
         => (pending' = pending /\ nIssued' = nIssued /\ store' = store)]_vars

\* a client has just tapped a cell it sees claimed by the other client
C1_Witness ==
  \E c \in Clients, s \in Slots :
    /\ JustToggled(c, s, "ignored")
    /\ ClaimedByOther(c, s)
    /\ Truthy(userId[c])
    /\ s \in DOMAIN store /\ store[s].claimedBy # userId[c]

(***************************************************************************)
(* The four claim fields of a document: claimedBy, claimantName (name),    *)
(* claimantColor (color) and claimedAt (timestamp).                        *)
(***************************************************************************)
FullyEmpty(doc) == \A f \in Fields : doc[f].t # "val"

FullyPopulated(doc) == \A f \in Fields : doc[f].t = "val"

(***************************************************************************)
(* C2: in every reachable state every document of the store is fully       *)
(* empty or fully populated; no toggle writes leave only some of the four  *)
(* fields set.                                                             *)
(***************************************************************************)
C2_FullyEmptyOrFullyPopulated ==
  \A s \in DOMAIN store : FullyEmpty(store[s]) \/ FullyPopulated(store[s])

(***************************************************************************)
(* C3: the round trip.  When the store commits the release of a slot by    *)
(* the identity that holds it (the claim was committed and its snapshot    *)
(* delivered before the second toggle, and nothing else is in flight), the *)
(* slot is Unclaimed again with all four fields of its document empty.     *)
(***************************************************************************)
C3_RoundTripClearsAllFields ==
  [][\A c \in Clients :
       (/\ Commit(c)
        /\ Head(pending[c]).fields = UnclaimFields
        /\ Head(pending[c]).slot \in DOMAIN store
        /\ store[Head(pending[c]).slot].claimedBy = userId[c]
        /\ \A k \in Clients : Len(pending[k]) = IF k = c THEN 1 ELSE 0)
         => (/\ Head(pending[c]).slot \in DOMAIN store' =>
                  FullyEmpty(store'[Head(pending[c]).slot]))]_vars

(***************************************************************************)
(* C4: a toggle made while the display name is empty, or the identifier is *)
(* missing, or there is no store handle, is rejected: no write is issued   *)
(* and neither the store nor the local slot mapping changes.               *)
(***************************************************************************)
NotReady(c) == userName[c] = <<>> \/ ~Truthy(userId[c]) \/ ~Truthy(db[c])

C4_NotReadyToggleRejected ==
  [][\A c \in Clients, s \in Slots :
       (Toggle(c, s) /\ NotReady(c))
         => (/\ pending' = pending /\ nIssued' = nIssued
             /\ store' = store /\ rotaData' = rotaData
             /\ lastToggle'.outcome \in {"notReady", "offline"})]_vars

\* a signed-in client with a store handle and no name has just tapped a free cell
C4_Witness ==
  \E c \in Clients, s \in Slots :
    /\ JustToggled(c, s, "notReady")
    /\ userName[c] = <<>> /\ Truthy(userId[c]) /\ Truthy(db[c])
    /\ Unclaimed(c, s)

\* the other two cases: no identifier (signed out), no store handle (failed start)
C4_WitnessNoIdentifier ==
  \E c \in Clients, s \in Slots :
    JustToggled(c, s, "notReady") /\ userName[c] # <<>> /\ ~Truthy(userId[c]) /\ Truthy(db[c])

C4_WitnessNoStore ==
  \E c \in Clients, s \in Slots :
    JustToggled(c, s, "notReady") /\ userName[c] # <<>> /\ Truthy(userId[c]) /\ ~Truthy(db[c])

(***************************************************************************)
(* C5: after every snapshot delivery the local slot mapping is exactly the *)
(* records of that snapshot whose claimedBy is non-empty, keyed by slot    *)
(* id, and nothing else; so once a listener has received everything the    *)
(* store sent, its mapping is the claimed documents of the store and a     *)
(* released slot is absent from it.                                        *)
(***************************************************************************)
NonEmptyClaimedBy(doc) == doc.claimedBy.t = "val" /\ doc.claimedBy.v # ""

ClaimedIn(st) == {s \in DOMAIN st : NonEmptyClaimedBy(st[s])}

MappingIs(data, st) ==
  /\ DOMAIN data = ClaimedIn(st)
  /\ \A s \in ClaimedIn(st) : data[s] = st[s]

C5_SnapshotReplacesLocalMapping ==
  /\ [][\A c \in Clients :
          Deliver(c) => MappingIs(rotaData'[c], Head(inbox[c]))]_vars
  /\ [](\A c \in Clients :
          (sub[c] = "active" /\ inbox[c] = <<>>) => MappingIs(rotaData[c], store))

\* a listener has received the snapshot of a released slot: the document
\* is still in the store, its claimedBy is null, the mapping has no entry
C5_Witness ==
  \E c \in Clients, s \in Slots :
    /\ sub[c] = "active" /\ inbox[c] = <<>>
    /\ s \in DOMAIN store /\ ~NonEmptyClaimedBy(store[s])
    /\ s \notin DOMAIN rotaData[c]

(***************************************************************************)
(* C6: the local slot mapping never holds a slot whose four claim fields   *)
(* are only partly populated; a remote record with claimedBy set and a     *)
(* companion field missing is dropped by reconciliation.                   *)
(***************************************************************************)
C6_LocalMappingNeverPartial ==
  \A c \in Clients : \A s \in DOMAIN rotaData[c] : FullyPopulated(rotaData[c][s])

(***************************************************************************)
(* C7: a claim write issued from Unclaimed carries the client's own        *)
(* identifier, its current display name, the colour of that name and a     *)
(* timestamp; the store's commit puts exactly those values in the          *)
(* document, and the local entries built from snapshots show a name with   *)
(* the colour of that name.                                                *)
(***************************************************************************)
LastOf(q) == q[Len(q)]

C7_ClaimWriteCarriesIdentity ==
  /\ [][\A c \in Clients, s \in Slots :
          (Toggle(c, s) /\ Unclaimed(c, s) /\ pending'[c] # pending[c])
            => (/\ LastOf(pending'[c]).slot = s
                /\ DOMAIN LastOf(pending'[c]).fields = Fields
                /\ LastOf(pending'[c]).fields.claimedBy = userId[c]
                /\ LastOf(pending'[c]).fields.name = Val(userName[c])
                /\ LastOf(pending'[c]).fields.color = Val(stringToHslColor(userName[c]))
                /\ LastOf(pending'[c]).fields.timestamp.t = "val")]_vars
  /\ [][\A c \in Clients :
          (Commit(c) /\ DOMAIN Head(pending[c]).fields = Fields)
            => store'[Head(pending[c]).slot] = Head(pending[c]).fields]_vars
  /\ [](\A c \in Clients : \A s \in DOMAIN rotaData[c] :
          /\ FullyPopulated(rotaData[c][s])
          /\ rotaData[c][s].color.v = stringToHslColor(rotaData[c][s].name.v))

\* the claim of a client is committed and delivered to it: the store and
\* its local view show the slot claimed by it under its name and colour
C7_Witness ==
  \E c \in Clients, s \in Slots :
    /\ s \in DOMAIN store /\ s \in DOMAIN rotaData[c]
    /\ userName[c] = Alice
    /\ store[s] = ClaimFields(userId[c], Alice, stringToHslColor(Alice), store[s].timestamp.v)
    /\ rotaData[c][s] = store[s]
    /\ ClaimedByMe(c, s)

(***************************************************************************)
(* C8: a client whose host gives no store configuration has an empty local *)
(* slot mapping in every state, never opens a listener, and every toggle   *)
(* it makes is rejected without a write.                                   *)
(***************************************************************************)
C8_OfflineModeIsInert ==
  \A c \in Clients :
    ~firebaseConfigDefined[c] =>
      /\ rotaData[c] = <<>>
      /\ sub[c] = "none" /\ inbox[c] = <<>>
      /\ pending[c] = <<>>
      /\ lastToggle.client = c => lastToggle.outcome \in {"offline", "notReady"}

\* an offline client with a name has just tapped the cell, which the other
\* client holds in the store
C8_Witness ==
  \E c \in Clients, s \in Slots :
    /\ ~firebaseConfigDefined[c]
    /\ JustToggled(c, s, "offline")
    /\ userName[c] # <<>>
    /\ s \in DOMAIN store /\ NonEmptyClaimedBy(store[s])

(***************************************************************************)
(* C9: eventual consistency.  Whenever every issued write has been         *)
(* answered, a client with an open listener eventually holds exactly the   *)
(* claimed slots of the store, unless a new write is issued or its         *)
(* listener ends first.                                                    *)
(***************************************************************************)
AllAnswered == \A k \in Clients : pending[k] = <<>>

C9_EventualConsistency ==
  \A c \in Clients :
    [](( AllAnswered /\ sub[c] = "active")
         => <>(MappingIs(rotaData[c], store) \/ ~AllAnswered \/ sub[c] # "active"))

\* writes have stopped and both listeners hold the same claimed slot
C9_Witness ==
  /\ AllAnswered /\ nIssued > 0
  /\ \A c \in Clients : sub[c] = "active" /\ inbox[c] = <<>>
  /\ \A c \in Clients : rotaData[c] # <<>> /\ MappingIs(rotaData[c], store)

(***************************************************************************)
(* C10: when the listener ends with an error the local slot mapping stays  *)
(* at its last delivered value: the error does not reset it, and it does   *)
(* not change while the listener is ended.                                 *)
(***************************************************************************)
C10_ErrorFreezesLocalMapping ==
  [][\A c \in Clients :
       ((sub[c] = "active" /\ sub'[c] = "error") \/ sub[c] = "error")
         => rotaData'[c] = rotaData[c]]_vars

\* a listener has ended with an error; the mapping still shows the claim
\* it last received although the store has released the slot since
C10_Witness ==
  \E c \in Clients, s \in Slots :
    /\ sub[c] = "error"
    /\ s \in DOMAIN rotaData[c]
    /\ s \in DOMAIN store /\ ~NonEmptyClaimedBy(store[s])

(***************************************************************************)
(* C11: a write that fails leaves the store and the client's local slot    *)
(* mapping as they were, is not issued again, and leaves the client's      *)
(* listener and its undelivered snapshots alone; the client's identity,    *)
(* name and store handle are untouched, so a later toggle on the slot goes *)
(* through the same decision.                                              *)
(***************************************************************************)
C11_FailedWriteChangesNothing ==
  [][\A c \in Clients :
       WriteFail(c)
         => (/\ store' = store /\ rotaData' = rotaData
             /\ sub' = sub /\ inbox' = inbox
             /\ pending' = [pending EXCEPT ![c] = Tail(@)]
             /\ nIssued' = nIssued
             /\ loading' = loading /\ userId' = userId
             /\ userName' = userName /\ db' = db)]_vars

\* the first claim of the slot failed (the store holds no document); the
\* client, its listener still open, has tapped the cell again and issued
\* a new claim
C11_Witness ==
  \E c \in Clients, s \in Slots :
    /\ JustToggled(c, s, "claim")
    /\ nIssued >= 2 /\ store = <<>>
    /\ Len(pending[c]) = 1
    /\ \A k \in Clients \ {c} : pending[k] = <<>> /\ userName[k] = <<>>
    /\ sub[c] = "active"


\* the conditions under which the snapshot effect keeps no listener:
\* the App is gone, or it holds no user identifier or no store handle
Cancelled(c) ==
  phase[c] = "unmounted" \/ ~Truthy(userId[c]) \/ ~Truthy(db[c])

\* C12: a client never has more than one live snapshot listener; once the
\* App is unmounted, or its store handle or user identifier is gone, it has
\* none, nothing is waiting to be delivered to it, and its local mapping no
\* longer changes; the mapping changes only while a listener is active.
C12_AtMostOneSubscription ==
  /\ [](\A c \in Clients :
          /\ listeners[c] <= 1
          /\ (sub[c] = "active") <=> (listeners[c] = 1)
          /\ Cancelled(c) => (listeners[c] = 0 /\ inbox[c] = <<>>))
  /\ [][\A c \in Clients :
          (Cancelled(c) \/ sub[c] # "active") => rotaData'[c] = rotaData[c]]_vars

\* a client whose listener was cancelled keeps the mapping it had, while the
\* store has moved on
C12_Witness ==
  \E c \in Clients :
    /\ Cancelled(c)
    /\ listeners[c] = 0
    /\ rotaData[c] # <<>>
    /\ ~MappingIs(rotaData[c], store)


(***************************************************************************)
(* C13: when the store commits the release of a slot by the identity that  *)
(* holds it, the store holds no document for that slot afterwards: the     *)
(* slot is absent from the collection, not present with empty fields.      *)
(***************************************************************************)
C13_UnclaimRemovesRecord ==
  [][\A c \in Clients :
       (/\ Commit(c)
        /\ Head(pending[c]).fields = UnclaimFields
        /\ Head(pending[c]).slot \in DOMAIN store
        /\ store[Head(pending[c]).slot].claimedBy = userId[c])
         => Head(pending[c]).slot \notin DOMAIN store']_vars


(***************************************************************************)
(* C14: for every moment new Date() can return, the generator yields       *)
(* exactly weeksToDisplay weeks; each week has 7 days that follow each     *)
(* other day by day from a Monday to a Sunday; the Mondays of consecutive  *)
(* weeks are 7 days apart; the first week contains today, its Monday being *)
(* 6 days before a Sunday and weekday - 1 days before any other day.  For  *)
(* Wednesday 2024-01-03 the first week is that of 2024-01-01 and the       *)
(* eighth that of 2024-02-19.                                              *)
(***************************************************************************)
ScenarioDWeek0 == <<"2", "0", "2", "4", "-", "0", "1", "-", "0", "1">>

ScenarioDWeek7 == <<"2", "0", "2", "4", "-", "0", "2", "-", "1", "9">>

C14_WeekGenerator ==
  LET weeks == rotaWeeks
      monday == [w \in 1..Len(weeks) |-> DayNumber(weeks[w].dates[1])]
  IN  weeks # <<>> =>
        /\ Len(weeks) = weeksToDisplay
        /\ \A w \in 1..Len(weeks) :
             /\ Len(weeks[w].dates) = 7
             /\ \A k \in 1..7 :
                  /\ getDay(weeks[w].dates[k]) = k % 7
                  /\ DayNumber(weeks[w].dates[k]) = monday[w] + (k - 1)
             /\ weeks[w].id = formatDate(weeks[w].dates[1])
        /\ \A w \in 1..(Len(weeks) - 1) : monday[w + 1] = monday[w] + 7
        /\ monday[1] <= DayNumber(today)
        /\ DayNumber(today) <= DayNumber(weeks[1].dates[7])
        /\ DayNumber(today) - monday[1]
             = IF getDay(today) = 0 THEN 6 ELSE getDay(today) - 1
        /\ ([year |-> today.year, month |-> today.month, date |-> today.date]
              = [year |-> 2024, month |-> 0, date |-> 3])
             => (weeks[1].id = ScenarioDWeek0 /\ weeks[8].id = ScenarioDWeek7)

\* the generator has run on a Sunday, and its weeks cross the end of a
\* February of 29 days
C14_Witness ==
  LET weeks == rotaWeeks
  IN  /\ weeks # <<>>
      /\ getDay(today) = 0
      /\ today.hours # 0
      /\ \E w \in 1..Len(weeks) : \E k \in 1..6 :
           /\ weeks[w].dates[k] = [year |-> 2024, month |-> 1, date |-> 29, hours |-> 0]
           /\ weeks[w].dates[k + 1].month = 2

(***************************************************************************)
(* C15: the hue derived from a non-empty display name lies in the full     *)
(* circle 0..359; it is never negative.                                    *)
(***************************************************************************)
C15_HueNeverNegative ==
  \A c \in Clients :
    userName[c] # <<>> =>
      (userColor(c).hue >= 0 /\ userColor(c).hue < HueModulus)


(***************************************************************************)
(* C16: no toggle changes the local mapping of any client, whether it      *)
(* issued a claim, a release or nothing, and neither does the failure or   *)
(* the commit of a write; whenever the mapping of a client changes, the    *)
(* step is the delivery of a snapshot to that client.                      *)
(***************************************************************************)
C16_OnlyDeliveryChangesMapping ==
  [][/\ \A c \in Clients, s \in Slots : Toggle(c, s) => rotaData' = rotaData
     /\ \A c \in Clients : (WriteFail(c) \/ Commit(c)) => rotaData' = rotaData
     /\ \A c \in Clients : rotaData'[c] # rotaData[c] => Deliver(c)]_vars

\* a release has just been issued and the mapping still shows the claim,
\* after an earlier claim was issued, committed and delivered
C16_Witness ==
  \E c \in Clients, s \in Slots :
    /\ JustToggled(c, s, "unclaim")
    /\ ClaimedByMe(c, s)
    /\ Len(pending[c]) = 1
    /\ Head(pending[c]).fields = UnclaimFields


(***************************************************************************)
(* C17: when the writes of several clients to one slot race, then once the *)
(* store has committed them all the document of the slot holds exactly the *)
(* field values of the write committed last: every field that write gave   *)
(* has the value it gave, and no field holds a value of an earlier write.  *)
(***************************************************************************)
C17_LastCommittedWriteWins ==
  [][\A c \in Clients :
       (/\ Commit(c)
        /\ c \in lastCommit.racing
        /\ Head(pending[c]).slot = lastCommit.slot
        /\ \A k \in Clients : pending'[k] = <<>>)
         => LET w == Head(pending[c])
            IN  \A f \in Fields :
                  store'[w.slot][f] = IF f \in DOMAIN w.fields THEN w.fields[f] ELSE Undefined]_vars


C18_WitnessClaims ==
  \E c \in Clients, s \in Slots :
    /\ JustToggled(c, s, "claim")
    /\ Len(pending[c]) = 2
    /\ pending[c][1].slot = s /\ pending[c][2].slot = s
    /\ pending[c][1].fields.claimedBy = userId[c]
    /\ pending[c][2].fields.claimedBy = userId[c]
    /\ pending[c][1].fields.timestamp # pending[c][2].fields.timestamp


\* the start of the client has failed: initializeApp or its companions
\* threw, or the sign-in was rejected and no user was ever reported
StartFailed(c) == phase[c] = "initFailed" \/ signIn[c] = "failed"

(***************************************************************************)
(* C19: once the start of a client has failed, it has no snapshot listener *)
(* and no store handle, none of its writes is in flight, its local mapping *)
(* is empty, and every toggle it makes is rejected without a write; a      *)
(* failed start stays failed.                                              *)
(***************************************************************************)
C19_FailedStartIsInert ==
  /\ [](\A c \in Clients :
          StartFailed(c)
            => (/\ sub[c] = "none" /\ listeners[c] = 0 /\ inbox[c] = <<>>
                /\ pending[c] = <<>>
                /\ rotaData[c] = <<>>
                /\ ~Truthy(db[c])
                /\ ~loading[c]))
  /\ [][\A c \in Clients :
          StartFailed(c)
            => (/\ StartFailed(c)'
                /\ \A s \in Slots :
                     Toggle(c, s) => (/\ lastToggle'.outcome = "notReady"
                                      /\ pending' = pending
                                      /\ nIssued' = nIssued))]_vars

\* a client whose initialisation threw holds the identifier
\* INITIALIZATION_FAILED and a name, has tapped a cell that another client
\* has claimed in the store, and was rejected
C19_Witness ==
  \E c \in Clients, s \in Slots :
    /\ phase[c] = "initFailed"
    /\ userId[c] = Val("INITIALIZATION_FAILED")
    /\ userName[c] # <<>>
    /\ JustToggled(c, s, "notReady")
    /\ s \in DOMAIN store /\ NonEmptyClaimedBy(store[s])

\* the same after a rejected sign-in
C19_WitnessAuth ==
  \E c \in Clients, s \in Slots :
    /\ signIn[c] = "failed"
    /\ userName[c] # <<>>
    /\ JustToggled(c, s, "notReady")
    /\ s \in DOMAIN store /\ NonEmptyClaimedBy(store[s])


\* the local entry of slot s names c's identifier as the claimant
HeldLocally(c, s) ==
  /\ s \in DOMAIN rotaData[c]
  /\ Truthy(userId[c])
  /\ rotaData[c][s].claimedBy = userId[c]

(***************************************************************************)
(* C20: whether a slot is the client's own depends on the claimedBy field  *)
(* and the client's identifier only.  Saving a display name leaves the     *)
(* identifier and the local mapping as they were, so a slot the client     *)
(* holds stays its own; and a toggle by a ready client on a slot it holds  *)
(* issues the release, whatever name the entry shows.                      *)
(***************************************************************************)
C20_OwnershipIgnoresName ==
  [][\A c \in Clients :
       /\ userName'[c] # userName[c]
            => (/\ userId' = userId /\ rotaData' = rotaData
                /\ \A s \in Slots : HeldLocally(c, s) => HeldLocally(c, s)')
       /\ \A s \in Slots :
            (Toggle(c, s) /\ HeldLocally(c, s) /\ ~NotReady(c) /\ ~isExternalHost(c))
              => (/\ lastToggle'.outcome = "unclaim"
                  /\ pending'[c] = Append(pending[c], [slot |-> s, fields |-> UnclaimFields]))]_vars

\* a client that claimed a slot as Alice has renamed itself Bob and has
\* just released the slot, whose local entry still shows Alice
C20_Witness ==
  \E c \in Clients, s \in Slots :
    /\ HeldLocally(c, s)
    /\ rotaData[c][s].name = Val(Alice)
    /\ userName[c] = Bob
    /\ JustToggled(c, s, "unclaim")
    /\ pending[c] = <<[slot |-> s, fields |-> UnclaimFields]>>

=============================================================================
